---------------------------- MODULE Spec2Model ----------------------------
(***************************************************************************)
(* CPU-scheduling simulators of the repository: rr.c (Round Robin with a   *)
(* fixed quantum) and sjf.c (preemptive SJF, i.e. SRTF).  Each program is  *)
(* one main(): it reads n (and the quantum for rr.c) and n process lines,  *)
(* validates them, runs its driver loop and computes the metrics.          *)
(*                                                                         *)
(* One behaviour of the model is one run of one of the two programs.  The  *)
(* variable policy says which program runs.  Array indices are 1-based     *)
(* here (C index i is i+1), so the code's "no index" value -1 is NoIdx.    *)
(* Every driver-loop iteration is one step; the inner loops (slice loop,   *)
(* enqueue_arrivals, the SRTF scan) are recursive operators evaluated      *)
(* inside that step, in the order of the code.                             *)
(*                                                                         *)
(* last, prevRun and owed are history variables: last records what the     *)
(* latest iteration decided, from which state, and the add_segment call it *)
(* made; prevRun is the process dispatched before that; owed[i] is the set *)
(* of processes that were ready when the latest unfinished slice of i      *)
(* ended and have not been dispatched since.  The programs do not read     *)
(* them.                                                                   *)
(***************************************************************************)
EXTENDS Integers, Sequences, FiniteSets, TLC

VARIABLES policy, pc, n, quantum, ri, p, segs, q, t, status,
          sum_wait, sum_tat, last, prevRun, owed

vars == <<policy, pc, n, quantum, ri, p, segs, q, t, status,
          sum_wait, sum_tat, last, prevRun, owed>>

hist == <<last, prevRun, owed>>

-----------------------------------------------------------------------------
(* Bounds of the input the model enumerates. *)
MaxN == 2
MaxArrival == 2
MaxBurst == 2
MaxQuantum == 2
MaxPid == 1
MaxWork == 4
MaxSegs == 2

(* Program constants. *)
INT_MAX == 2147483647
IDLE == -1
UNSET == -1
NoIdx == 0

INT_MIN == -INT_MAX - 1

(* int subtraction of the metrics.  A result outside int wraps (two's      *)
(* complement), the outcome of the usual builds for signed overflow; the   *)
(* wrapped value is computed without leaving the int range.                *)
IntSub(a, b) ==
    IF b > 0 /\ a < INT_MIN + b
    THEN ((a + INT_MAX) + 1) + ((INT_MAX - b) + 1)
    ELSE IF b < 0 /\ a > INT_MAX + b
    THEN ((a - INT_MAX) - 1) + ((INT_MIN - b) - 1) + 1
    ELSE a - b

(* A double holding an integer: hi * 2^31 + lo with 0 <= lo < 2^31.        *)
Wide(x) == IF x < 0 THEN [hi |-> -1, lo |-> (x + INT_MAX) + 1]
           ELSE [hi |-> 0, lo |-> x]

WideAdd(w, x) ==
    LET v == Wide(x)
    IN  IF w.lo > INT_MAX - v.lo
        THEN [hi |-> w.hi + v.hi + 1, lo |-> (w.lo - (INT_MAX - v.lo)) - 1]
        ELSE [hi |-> w.hi + v.hi, lo |-> w.lo + v.lo]

(* printf("%.2f", sum / cnt) in hundredths, for a sum in 0..INT_MAX/200.   *)
avg_centi(w, cnt) == (200 * w.lo + cnt) \div (2 * cnt)

-----------------------------------------------------------------------------
(* Process table *)

ZeroProc == [pid |-> 0, arrival |-> 0, burst |-> 0, remaining |-> 0,
             completion |-> 0, waiting |-> 0, turnaround |-> 0, enqueued |-> 0]

Calloc(cnt) == [i \in 1..cnt |-> ZeroProc]

all_done(pp) == \A i \in 1..Len(pp) : ~(pp[i].remaining > 0)

-----------------------------------------------------------------------------
(* Timeline recorder *)

add_segment_nomerge(ss, pid, start, end) ==
    IF start = end THEN ss
    ELSE Append(ss, [pid |-> pid, start |-> start, end |-> end])

add_segment_anygap(ss, pid, start, end) ==
    IF start = end THEN ss
    ELSE IF Len(ss) > 0 /\ ss[Len(ss)].pid = pid
         THEN [ss EXCEPT ![Len(ss)].end = end]
         ELSE Append(ss, [pid |-> pid, start |-> start, end |-> end])

add_segment_noskip(ss, pid, start, end) ==
    IF Len(ss) > 0 /\ ss[Len(ss)].pid = pid /\ ss[Len(ss)].end = start
    THEN [ss EXCEPT ![Len(ss)].end = end]
    ELSE Append(ss, [pid |-> pid, start |-> start, end |-> end])

add_segment(ss, pid, start, end) ==
    IF start = end THEN ss
    ELSE IF Len(ss) > 0 /\ ss[Len(ss)].pid = pid /\ ss[Len(ss)].end = start
         THEN [ss EXCEPT ![Len(ss)].end = end]
         ELSE Append(ss, [pid |-> pid, start |-> start, end |-> end])

-----------------------------------------------------------------------------
(* Circular queue of rr.c.  data is indexed 0..cap-1 as in the code. *)

NoQueue == [data |-> <<>>, cap |-> 0, head |-> 0, tail |-> 0, size |-> 0]

q_init(cap) == [data |-> [i \in 0..(cap - 1) |-> 0], cap |-> cap,
                head |-> 0, tail |-> 0, size |-> 0]

q_empty(qq) == qq.size = 0

q_grow(qq) ==
    IF qq.size = qq.cap
    THEN [data |-> [i \in 0..(2 * qq.cap - 1) |->
                       IF i < qq.size THEN qq.data[(qq.head + i) % qq.cap] ELSE 0],
          cap |-> 2 * qq.cap, head |-> 0, tail |-> qq.size, size |-> qq.size]
    ELSE qq

q_push_front(qq, v) ==
    LET g == q_grow(qq)
        h == (g.head + g.cap - 1) % g.cap
    IN  [g EXCEPT !.data[h] = v, !.head = h, !.size = g.size + 1]

q_push(qq, v) ==
    LET g == q_grow(qq)
    IN  [g EXCEPT !.data[g.tail] = v,
                  !.tail = (g.tail + 1) % g.cap,
                  !.size = g.size + 1]

q_front(qq) == qq.data[qq.head]

q_pop_nosize(qq) == [qq EXCEPT !.head = (qq.head + 1) % qq.cap]

q_pop(qq) == [qq EXCEPT !.head = (qq.head + 1) % qq.cap, !.size = qq.size - 1]

(* The queue's content, head first (a view for the properties). *)
QSeq(qq) == [k \in 1..qq.size |-> qq.data[(qq.head + k - 1) % qq.cap]]

RECURSIVE EnqFrom(_, _, _, _)
EnqFrom(pp, qq, tt, i) ==
    IF i > Len(pp) THEN [p |-> pp, q |-> qq]
    ELSE IF pp[i].enqueued = 0 /\ pp[i].arrival <= tt
         THEN EnqFrom([pp EXCEPT ![i].enqueued = 1], q_push(qq, i), tt, i + 1)
         ELSE EnqFrom(pp, qq, tt, i + 1)

enqueue_arrivals(pp, qq, tt) == EnqFrom(pp, qq, tt, 1)

-----------------------------------------------------------------------------
(* Round Robin: the pieces of one driver-loop iteration of rr.c *)

RECURSIVE EarliestFrom(_, _, _)
EarliestFrom(pp, i, earliest) ==
    IF i > Len(pp) THEN earliest
    ELSE EarliestFrom(pp, i + 1,
                      IF pp[i].arrival < earliest THEN pp[i].arrival ELSE earliest)

earliest_arrival(pp) == EarliestFrom(pp, 2, pp[1].arrival)

RECURSIVE NextArrRRFrom(_, _, _)
NextArrRRFrom(pp, i, next_arr) ==
    IF i > Len(pp) THEN next_arr
    ELSE IF pp[i].remaining > 0 /\ pp[i].enqueued = 0
              /\ (next_arr = -1 \/ pp[i].arrival < next_arr)
         THEN NextArrRRFrom(pp, i + 1, pp[i].arrival)
         ELSE NextArrRRFrom(pp, i + 1, next_arr)

next_arr_rr(pp) == NextArrRRFrom(pp, 1, -1)

slice_whole(rem, qu) == rem

slice_over(rem, qu) == IF rem <= qu THEN rem ELSE qu + 1

slice_len(rem, qu) == IF rem < qu THEN rem ELSE qu

(* The slice loop: one unit at a time, arrivals enqueued after each unit. *)
RECURSIVE SliceFrom(_, _, _, _, _, _)
SliceFrom(pp, qq, tt, idx, k, slice) ==
    IF ~(k < slice) THEN [p |-> pp, q |-> qq, t |-> tt]
    ELSE LET p1 == [pp EXCEPT ![idx].remaining = @ - 1]
             e  == enqueue_arrivals(p1, qq, tt + 1)
         IN  IF e.p[idx].remaining = 0
             THEN [p |-> e.p, q |-> e.q, t |-> tt + 1]
             ELSE SliceFrom(e.p, e.q, tt + 1, idx, k + 1, slice)

(* The slice as one jump: arrivals are looked at only when it ends. *)
run_slice_jump(pp, qq, tt, idx, slice) ==
    LET p1 == [pp EXCEPT ![idx].remaining = @ - slice]
        e  == enqueue_arrivals(p1, qq, tt + slice)
    IN  [p |-> e.p, q |-> e.q, t |-> tt + slice]

(* The slice without a look at the arrivals. *)
run_slice_noenq(pp, qq, tt, idx, slice) ==
    [p |-> [pp EXCEPT ![idx].remaining = @ - slice], q |-> qq, t |-> tt + slice]

run_slice(pp, qq, tt, idx, slice) == SliceFrom(pp, qq, tt, idx, 0, slice)

(* What follows the slice: completion stamp or requeue at the tail. *)
after_slice_front(pp, qq, tt, idx) ==
    IF pp[idx].remaining = 0
    THEN [p |-> [pp EXCEPT ![idx].completion = tt], q |-> qq]
    ELSE [p |-> pp, q |-> q_push_front(qq, idx)]

after_slice_nostamp(pp, qq, tt, idx) ==
    IF pp[idx].remaining = 0
    THEN [p |-> pp, q |-> qq]
    ELSE [p |-> pp, q |-> q_push(qq, idx)]

after_slice_requeue(pp, qq, tt, idx) ==
    [p |-> IF pp[idx].remaining = 0 THEN [pp EXCEPT ![idx].completion = tt] ELSE pp,
     q |-> q_push(qq, idx)]

after_slice(pp, qq, tt, idx) ==
    IF pp[idx].remaining = 0
    THEN [p |-> [pp EXCEPT ![idx].completion = tt], q |-> qq]
    ELSE [p |-> pp, q |-> q_push(qq, idx)]

-----------------------------------------------------------------------------
(* SRTF: the pieces of one driver-loop iteration of sjf.c *)

tie_break_none(pp, i, pick) == FALSE

tie_break_pid_first(pp, i, pick) ==
    \/ pp[i].pid < pp[pick].pid
    \/ (pp[i].pid = pp[pick].pid /\ pp[i].arrival < pp[pick].arrival)

tie_break(pp, i, pick) ==
    \/ pp[i].arrival < pp[pick].arrival
    \/ (pp[i].arrival = pp[pick].arrival /\ pp[i].pid < pp[pick].pid)

RECURSIVE PickFrom(_, _, _, _, _)
PickFrom(pp, tt, i, pick, best_rem) ==
    IF i > Len(pp) THEN pick
    ELSE IF pp[i].arrival <= tt /\ pp[i].remaining > 0
         THEN IF pp[i].remaining < best_rem
              THEN PickFrom(pp, tt, i + 1, i, pp[i].remaining)
              ELSE IF pp[i].remaining = best_rem /\ pick # NoIdx
                        /\ tie_break(pp, i, pick)
                   THEN PickFrom(pp, tt, i + 1, i, best_rem)
                   ELSE PickFrom(pp, tt, i + 1, pick, best_rem)
         ELSE PickFrom(pp, tt, i + 1, pick, best_rem)

(* First come first served: the first arrived unfinished record by arrival. *)
RECURSIVE FcfsFrom(_, _, _, _)
FcfsFrom(pp, tt, i, pick) ==
    IF i > Len(pp) THEN pick
    ELSE IF pp[i].arrival <= tt /\ pp[i].remaining > 0
              /\ (pick = NoIdx \/ pp[i].arrival < pp[pick].arrival)
         THEN FcfsFrom(pp, tt, i + 1, i)
         ELSE FcfsFrom(pp, tt, i + 1, pick)

srtf_pick_fcfs(pp, tt) == FcfsFrom(pp, tt, 1, NoIdx)

srtf_pick(pp, tt) == PickFrom(pp, tt, 1, NoIdx, INT_MAX)

RECURSIVE NextArrSRTFFrom(_, _, _, _)
NextArrSRTFFrom(pp, tt, i, next_arr) ==
    IF i > Len(pp) THEN next_arr
    ELSE IF pp[i].remaining > 0 /\ pp[i].arrival > tt /\ pp[i].arrival < next_arr
         THEN NextArrSRTFFrom(pp, tt, i + 1, pp[i].arrival)
         ELSE NextArrSRTFFrom(pp, tt, i + 1, next_arr)

next_arr_srtf(pp, tt) == NextArrSRTFFrom(pp, tt, 1, INT_MAX)

-----------------------------------------------------------------------------
(* Input.  Every scanf draws its value here.  Besides the values within    *)
(* the bounds, the two worked scenarios of the documentation can be typed  *)
(* in, line by line.  A burst of INT_MAX is offered to sjf.c only: rr.c    *)
(* compares nothing with INT_MAX and would step 2^31 times through it.     *)
(* The bursts of one input add up to MaxWork at most (INT_MAX aside),      *)
(* which also keeps the clock far from INT_MAX: t does not overflow.       *)

ScenarioA == [quantum |-> 2,
              procs |-> << [pid |-> 1, arrival |-> 0, burst |-> 4],
                           [pid |-> 2, arrival |-> 1, burst |-> 3],
                           [pid |-> 3, arrival |-> 3, burst |-> 2] >>]

ScenarioB == [quantum |-> 0,
              procs |-> << [pid |-> 1, arrival |-> 0, burst |-> 8],
                           [pid |-> 2, arrival |-> 1, burst |-> 4],
                           [pid |-> 3, arrival |-> 2, burst |-> 9],
                           [pid |-> 4, arrival |-> 3, burst |-> 5] >>]

(* A Round Robin input whose second and third lines arrive, in the other   *)
(* order, during the first slice.                                          *)
LateFirst == [quantum |-> 2,
              procs |-> << [pid |-> 1, arrival |-> 0, burst |-> 2],
                           [pid |-> 2, arrival |-> 2, burst |-> 1],
                           [pid |-> 3, arrival |-> 1, burst |-> 1] >>]

(* A Round Robin input that fills the ready queue to its capacity. *)
FullQueue == [quantum |-> 1,
              procs |-> << [pid |-> 1, arrival |-> 0, burst |-> 2],
                           [pid |-> 2, arrival |-> 0, burst |-> 1],
                           [pid |-> 3, arrival |-> 0, burst |-> 1],
                           [pid |-> 4, arrival |-> 0, burst |-> 1] >>]

Scenario == IF policy = "RR" THEN ScenarioA ELSE ScenarioB

Line(k) == [pid |-> p[k].pid, arrival |-> p[k].arrival, burst |-> p[k].burst]

(* The lines read so far are the scenario's first k - 1 lines. *)
OnScenario(k) ==
    /\ n = Len(Scenario.procs)
    /\ policy = "RR" => quantum = Scenario.quantum
    /\ \A j \in 1..(k - 1) : Line(j) = Scenario.procs[j]

OnLateFirst(k) ==
    /\ policy = "RR"
    /\ n = Len(LateFirst.procs)
    /\ quantum = LateFirst.quantum
    /\ \A j \in 1..(k - 1) : Line(j) = LateFirst.procs[j]

OnFullQueue(k) ==
    /\ policy = "RR"
    /\ n = Len(FullQueue.procs)
    /\ quantum = FullQueue.quantum
    /\ \A j \in 1..(k - 1) : Line(j) = FullQueue.procs[j]

Pids == {IDLE} \cup (1..MaxPid)

NChoices ==
    (-1..MaxN) \cup {Len(Scenario.procs)}
        \cup (IF policy = "RR" THEN {Len(FullQueue.procs)} ELSE {})

QuantumChoices ==
    (IF n <= MaxN THEN 0..MaxQuantum ELSE {})
        \cup (IF n = Len(ScenarioA.procs) THEN {ScenarioA.quantum} ELSE {})
        \cup (IF n = Len(FullQueue.procs) THEN {FullQueue.quantum} ELSE {})

BurstChoices == (0..MaxBurst) \cup (IF policy = "SRTF" THEN {INT_MAX} ELSE {})

RECURSIVE WorkFrom(_)
WorkFrom(k) ==
    IF k < 1 THEN 0
    ELSE WorkFrom(k - 1) + (IF p[k].burst < INT_MAX THEN p[k].burst ELSE 0)

LineChoices(k) ==
    (IF n <= MaxN
     THEN {ln \in [pid : Pids, arrival : -1..MaxArrival, burst : BurstChoices] :
             ln.burst = INT_MAX \/ WorkFrom(k - 1) + ln.burst <= MaxWork}
     ELSE {})
        \cup (IF OnScenario(k) THEN {Scenario.procs[k]} ELSE {})
        \cup (IF OnLateFirst(k) THEN {LateFirst.procs[k]} ELSE {})
        \cup (IF OnFullQueue(k) THEN {FullQueue.procs[k]} ELSE {})

NoApp == [called |-> FALSE, pid |-> 0, start |-> 0, end |-> 0]
App(pid, start, end) == [called |-> TRUE, pid |-> pid, start |-> start, end |-> end]

Range(f) == {f[x] : x \in DOMAIN f}

NoEntry == [kind |-> "none", idx |-> NoIdx, t0 |-> 0, t1 |-> 0, pb |-> <<>>,
            qb |-> <<>>, qe |-> <<>>, sb |-> <<>>, app |-> NoApp,
            prev |-> NoIdx, owedb |-> {}]

(* The record of one step taken from the current state: qe is the ready   *)
(* queue when the step's clock advance ended (before a requeue).           *)
Entry(kind, idx, t1, qe, app) ==
    [kind |-> kind, idx |-> idx, t0 |-> t, t1 |-> t1, pb |-> p,
     qb |-> QSeq(q), qe |-> qe, sb |-> segs, app |-> app,
     prev |-> prevRun, owedb |-> IF idx \in DOMAIN owed THEN owed[idx] ELSE {}]

-----------------------------------------------------------------------------
Init ==
    /\ policy \in {"RR", "SRTF"}
    /\ pc = "read_n"
    /\ n = 0
    /\ quantum = 0
    /\ ri = 1
    /\ p = <<>>
    /\ segs = <<>>
    /\ q = NoQueue
    /\ t = 0
    /\ status = -1
    /\ sum_wait = Wide(0)
    /\ sum_tat = Wide(0)
    /\ last = NoEntry
    /\ prevRun = NoIdx
    /\ owed = <<>>

Fail ==
    /\ pc' = "exit"
    /\ status' = 1

(* scanf("%d", &n): ok is FALSE when no integer could be read. *)
ReadN ==
    /\ pc = "read_n"
    /\ \E ok \in BOOLEAN, v \in NChoices :
         IF ~ok \/ v <= 0
         THEN /\ Fail
              /\ n' = (IF ok THEN v ELSE n)
              /\ p' = p
         ELSE /\ n' = v
              /\ status' = status
              /\ IF policy = "RR"
                 THEN pc' = "read_quantum" /\ p' = p
                 ELSE pc' = "read_proc" /\ p' = Calloc(v)
    /\ UNCHANGED <<policy, quantum, ri, segs, q, t, sum_wait, sum_tat, hist>>

ReadQuantum ==
    /\ pc = "read_quantum"
    /\ \E ok \in BOOLEAN, v \in QuantumChoices :
         IF ~ok \/ v <= 0
         THEN /\ Fail
              /\ quantum' = (IF ok THEN v ELSE quantum)
              /\ p' = p
         ELSE /\ quantum' = v
              /\ status' = status
              /\ pc' = "read_proc"
              /\ p' = Calloc(n)
    /\ UNCHANGED <<policy, n, ri, segs, q, t, sum_wait, sum_tat, hist>>

invalid_line_lax(ln) == ln.arrival < 0 \/ ln.burst < 0

(* The validation of one process line. *)
invalid_line(ln) == ln.arrival < 0 \/ ln.burst <= 0

(* One pass of the reading loop: scanf of a line, validation, initial state. *)
ReadProcess ==
    /\ pc = "read_proc"
    /\ \E ok \in BOOLEAN, ln \in LineChoices(ri) :
         LET p1 == [p EXCEPT ![ri].pid = ln.pid, ![ri].arrival = ln.arrival,
                             ![ri].burst = ln.burst]
         IN  IF ~ok
             THEN Fail /\ p' = p /\ ri' = ri
             ELSE IF invalid_line(ln)
             THEN Fail /\ p' = p1 /\ ri' = ri
             ELSE /\ p' = [p1 EXCEPT ![ri].remaining = ln.burst,
                                     ![ri].completion = UNSET,
                                     ![ri].enqueued = 0]
                  /\ ri' = ri + 1
                  /\ pc' = (IF ri + 1 > n THEN "setup" ELSE "read_proc")
                  /\ status' = status
    /\ UNCHANGED <<policy, n, quantum, segs, q, t, sum_wait, sum_tat, hist>>

(* rr.c: queue, leading idle segment, first enqueue. *)
RRSetup ==
    /\ pc = "setup"
    /\ policy = "RR"
    /\ LET earliest == earliest_arrival(p)
           t0 == IF earliest > 0 THEN earliest ELSE 0
           q0 == q_init(IF n > 4 THEN n ELSE 4)
           e  == enqueue_arrivals(p, q0, t0)
       IN  /\ segs' = (IF earliest > 0 THEN add_segment(<<>>, IDLE, 0, earliest) ELSE <<>>)
           /\ t' = t0
           /\ p' = e.p
           /\ q' = e.q
           /\ last' = Entry("setup", NoIdx, t0, QSeq(e.q),
                            IF earliest > 0 THEN App(IDLE, 0, earliest) ELSE NoApp)
    /\ owed' = [i \in 1..n |-> {}]
    /\ pc' = "loop"
    /\ UNCHANGED <<policy, n, quantum, ri, status, sum_wait, sum_tat, prevRun>>

(* sjf.c: empty segment list, clock 0. *)
SRTFSetup ==
    /\ pc = "setup"
    /\ policy = "SRTF"
    /\ segs' = <<>>
    /\ t' = 0
    /\ last' = Entry("setup", NoIdx, 0, <<>>, NoApp)
    /\ owed' = [i \in 1..n |-> {}]
    /\ pc' = "loop"
    /\ UNCHANGED <<policy, n, quantum, ri, p, q, status, sum_wait, sum_tat, prevRun>>

(* rr.c, empty queue: jump to the next arrival, or leave by the break. *)
RRIdle ==
    /\ pc = "loop"
    /\ policy = "RR"
    /\ ~all_done(p)
    /\ q_empty(q)
    /\ LET next_arr == next_arr_rr(p)
       IN  IF next_arr = -1
           THEN /\ pc' = "metrics"
                /\ last' = Entry("break", NoIdx, t, QSeq(q), NoApp)
                /\ UNCHANGED <<segs, t, p, q>>
           ELSE LET e == enqueue_arrivals(p, q, next_arr)
                IN  /\ segs' = (IF next_arr > t
                                THEN add_segment(segs, IDLE, t, next_arr) ELSE segs)
                    /\ t' = next_arr
                    /\ p' = e.p
                    /\ q' = e.q
                    /\ pc' = pc
                    /\ last' = Entry("idle", NoIdx, next_arr, QSeq(e.q),
                                     IF next_arr > t THEN App(IDLE, t, next_arr)
                                     ELSE NoApp)
    /\ UNCHANGED <<policy, n, quantum, ri, status, sum_wait, sum_tat, prevRun, owed>>

(* rr.c, non-empty queue: pop the head and run it for one slice. *)
RRDispatch ==
    /\ pc = "loop"
    /\ policy = "RR"
    /\ ~all_done(p)
    /\ ~q_empty(q)
    /\ LET idx == q_front(q)
           q1  == q_pop(q)
       IN  IF p[idx].remaining <= 0
           THEN /\ q' = q1
                /\ last' = Entry("skip", idx, t, QSeq(q1), NoApp)
                /\ UNCHANGED <<segs, t, p, prevRun, owed>>
           ELSE LET slice == slice_len(p[idx].remaining, quantum)
                    r == run_slice(p, q1, t, idx, slice)
                    a == after_slice(r.p, r.q, r.t, idx)
                IN  /\ segs' = add_segment(segs, p[idx].pid, t, r.t)
                    /\ t' = r.t
                    /\ p' = a.p
                    /\ q' = a.q
                    /\ last' = Entry("run", idx, r.t, QSeq(r.q), App(p[idx].pid, t, r.t))
                    /\ prevRun' = idx
                    /\ owed' = [j \in 1..n |->
                                  IF j = idx
                                  THEN (IF r.p[idx].remaining > 0
                                        THEN Range(QSeq(r.q)) ELSE {})
                                  ELSE owed[j] \ {idx}]
    /\ UNCHANGED <<policy, pc, n, quantum, ri, status, sum_wait, sum_tat>>

(* sjf.c, nothing to pick: jump to the next arrival, or leave by the break. *)
SRTFIdle ==
    /\ pc = "loop"
    /\ policy = "SRTF"
    /\ ~all_done(p)
    /\ srtf_pick(p, t) = NoIdx
    /\ LET next_arr == next_arr_srtf(p, t)
       IN  IF next_arr = INT_MAX
           THEN /\ pc' = "metrics"
                /\ last' = Entry("break", NoIdx, t, <<>>, NoApp)
                /\ UNCHANGED <<segs, t>>
           ELSE /\ segs' = add_segment(segs, IDLE, t, next_arr)
                /\ t' = next_arr
                /\ pc' = pc
                /\ last' = Entry("idle", NoIdx, next_arr, <<>>, App(IDLE, t, next_arr))
    /\ UNCHANGED <<policy, n, quantum, ri, p, q, status, sum_wait, sum_tat,
                   prevRun, owed>>

(* sjf.c: run the picked process for one unit. *)
SRTFRun ==
    /\ pc = "loop"
    /\ policy = "SRTF"
    /\ ~all_done(p)
    /\ srtf_pick(p, t) # NoIdx
    /\ LET pick == srtf_pick(p, t)
           p1 == [p EXCEPT ![pick].remaining = @ - 1]
       IN  /\ segs' = add_segment(segs, p[pick].pid, t, t + 1)
           /\ t' = t + 1
           /\ p' = (IF p1[pick].remaining = 0
                    THEN [p1 EXCEPT ![pick].completion = t + 1] ELSE p1)
           /\ last' = Entry("run", pick, t + 1, <<>>, App(p[pick].pid, t, t + 1))
           /\ prevRun' = pick
    /\ UNCHANGED <<policy, pc, n, quantum, ri, q, status, sum_wait, sum_tat, owed>>

(* while (!all_done(p, n)) is false: the loop ends. *)
LoopExit ==
    /\ pc = "loop"
    /\ all_done(p)
    /\ pc' = "metrics"
    /\ UNCHANGED <<policy, n, quantum, ri, p, segs, q, t, status,
                   sum_wait, sum_tat, hist>>

turnaround_of(r) == IntSub(r.completion, r.arrival)

waiting_from_zero(r) == IntSub(r.completion, r.burst)

waiting_of(r) == IntSub(turnaround_of(r), r.burst)

(* avg_wait and avg_tat before the division by n. *)
RECURSIVE SumWaitFrom(_, _, _)
SumWaitFrom(pp, i, acc) ==
    IF i > Len(pp) THEN acc
    ELSE SumWaitFrom(pp, i + 1, WideAdd(acc, waiting_of(pp[i])))

RECURSIVE SumTatFrom(_, _, _)
SumTatFrom(pp, i, acc) ==
    IF i > Len(pp) THEN acc
    ELSE SumTatFrom(pp, i + 1, WideAdd(acc, turnaround_of(pp[i])))

(* Metrics loop and return 0. *)
Metrics ==
    /\ pc = "metrics"
    /\ p' = [i \in 1..Len(p) |->
               [p[i] EXCEPT !.turnaround = turnaround_of(p[i]),
                            !.waiting = waiting_of(p[i])]]
    /\ sum_wait' = SumWaitFrom(p, 1, Wide(0))
    /\ sum_tat' = SumTatFrom(p, 1, Wide(0))
    /\ pc' = "exit"
    /\ status' = 0
    /\ UNCHANGED <<policy, n, quantum, ri, segs, q, t, hist>>

Next ==
    \/ ReadN
    \/ ReadQuantum
    \/ ReadProcess
    \/ RRSetup
    \/ SRTFSetup
    \/ RRIdle
    \/ RRDispatch
    \/ SRTFIdle
    \/ SRTFRun
    \/ LoopExit
    \/ Metrics

Spec == Init /\ [][Next]_vars

-----------------------------------------------------------------------------
(* The timeline recorder on its own: add_segment applied to any list with  *)
(* any arguments, next to the two programs.                                *)

InitRecorder ==
    /\ policy = "REC"
    /\ pc = "recorder"
    /\ n = 0
    /\ quantum = 0
    /\ ri = 1
    /\ p = <<>>
    /\ segs = <<>>
    /\ q = NoQueue
    /\ t = 0
    /\ status = -1
    /\ sum_wait = Wide(0)
    /\ sum_tat = Wide(0)
    /\ last = NoEntry
    /\ prevRun = NoIdx
    /\ owed = <<>>

RecorderAppend ==
    /\ pc = "recorder"
    /\ Len(segs) < MaxSegs
    /\ \E pid \in Pids, start \in 0..MaxArrival, end \in 0..MaxArrival :
         /\ segs' = add_segment(segs, pid, start, end)
         /\ last' = Entry("append", NoIdx, t, <<>>, App(pid, start, end))
    /\ UNCHANGED <<policy, pc, n, quantum, ri, p, q, t, status, sum_wait, sum_tat,
                   prevRun, owed>>

NextRec == Next \/ RecorderAppend

SpecRec == (Init \/ InitRecorder) /\ [][NextRec]_vars

-----------------------------------------------------------------------------
(* Vocabulary of the properties *)

(* The driver loop has been left (by its condition or by a break). *)
LoopEnded == pc = "metrics" \/ (pc = "exit" /\ status = 0)

(* A driver-loop iteration boundary, or later. *)
AtBoundary == pc = "loop" \/ LoopEnded

Ready(pp, tt, j) == pp[j].arrival <= tt /\ pp[j].remaining > 0

IsScenario(sc) ==
    /\ n = Len(sc.procs)
    /\ Len(p) = n
    /\ \A k \in 1..n : Line(k) = sc.procs[k]

Waits == [k \in 1..Len(p) |-> p[k].waiting]

-----------------------------------------------------------------------------
(* C1: SRTF - the process dispatched for one unit at clock t had arrived   *)
(* and was unfinished, no other arrived unfinished process had a smaller   *)
(* remaining time, none tied on remaining had a smaller arrival, and none  *)
(* tied on remaining and arrival had a smaller pid.                        *)
C1_SrtfChoice ==
    (policy = "SRTF" /\ last.kind = "run") =>
        LET pb == last.pb
            c  == last.idx
        IN  /\ Ready(pb, last.t0, c)
            /\ \A j \in 1..Len(pb) :
                 Ready(pb, last.t0, j) =>
                    /\ pb[c].remaining <= pb[j].remaining
                    /\ pb[j].remaining = pb[c].remaining =>
                          /\ pb[c].arrival <= pb[j].arrival
                          /\ pb[j].arrival = pb[c].arrival => pb[c].pid <= pb[j].pid

(* A dispatch that the tie-break decided against the input order. *)
C1_Witness ==
    /\ policy = "SRTF"
    /\ last.kind = "run"
    /\ \E j \in 1..Len(last.pb) :
         /\ j < last.idx
         /\ Ready(last.pb, last.t0, j)
         /\ last.pb[j].remaining = last.pb[last.idx].remaining

(* C2: Round Robin - a process dispatched twice in succession was alone in *)
(* the ready queue at the second decision, and no process is dispatched    *)
(* again while a process that was ready when its last slice ended still    *)
(* waits for its turn.                                                     *)
C2_RrFifoFairness ==
    (policy = "RR" /\ last.kind = "run") =>
        /\ last.prev = last.idx => last.qb = <<last.idx>>
        /\ last.owedb = {}

(* The same process twice in succession while another one has yet to come. *)
C2_Witness ==
    /\ policy = "RR"
    /\ last.kind = "run"
    /\ last.prev = last.idx
    /\ \E j \in 1..Len(last.pb) : j # last.idx /\ last.pb[j].remaining > 0

(* A requeued process dispatched again after the others had their turn. *)
C2_WitnessCycle ==
    /\ policy = "RR"
    /\ last.kind = "run"
    /\ last.prev # last.idx
    /\ last.pb[last.idx].remaining < last.pb[last.idx].burst
    /\ Len(last.qb) > 1

-----------------------------------------------------------------------------
RECURSIVE MaxCompletionFrom(_, _, _)
MaxCompletionFrom(pp, i, m) ==
    IF i > Len(pp) THEN m
    ELSE MaxCompletionFrom(pp, i + 1, IF pp[i].completion > m THEN pp[i].completion ELSE m)

MaxCompletion(pp) == MaxCompletionFrom(pp, 2, pp[1].completion)

Tiles(ss, pp) ==
    /\ Len(ss) > 0
    /\ ss[1].start = 0
    /\ \A k \in 1..Len(ss) :
         /\ ss[k].start < ss[k].end
         /\ k > 1 => ss[k].start = ss[k - 1].end
    /\ ss[Len(ss)].end = MaxCompletion(pp)

(* C3: at termination the segments tile the time axis - the first starts   *)
(* at 0, each is non-empty and starts where the previous one ended, and    *)
(* the last ends at the largest completion time.                           *)
C3_SegmentsTile == LoopEnded => Tiles(segs, p)

RECURSIVE BusyFrom(_, _, _)
BusyFrom(ss, k, acc) ==
    IF k > Len(ss) THEN acc
    ELSE BusyFrom(ss, k + 1,
                  IF ss[k].pid # IDLE THEN WideAdd(acc, ss[k].end - ss[k].start) ELSE acc)

RECURSIVE BurstFrom(_, _, _)
BurstFrom(pp, i, acc) ==
    IF i > Len(pp) THEN acc ELSE BurstFrom(pp, i + 1, WideAdd(acc, pp[i].burst))

(* C4: at termination the non-IDLE segments add up to the sum of the       *)
(* bursts.                                                                 *)
C4_BusyTimeIsBurstSum == LoopEnded => BusyFrom(segs, 1, Wide(0)) = BurstFrom(p, 1, Wide(0))

(* C5: the driver loop is left only when every process is done - each has  *)
(* remaining 0 and a completion time - and never by a safety break.        *)
C5_ExitOnlyWhenAllDone ==
    LoopEnded =>
        /\ \A i \in 1..Len(p) : p[i].remaining = 0 /\ p[i].completion # UNSET
        /\ last.kind # "break"

(* C6: at every iteration boundary and at termination, for every process:  *)
(* 0 <= remaining <= burst; completion is set exactly when remaining is    *)
(* 0; over the latest iteration remaining did not grow, a completion       *)
(* already set did not change, and a completion newly set is the clock at  *)
(* which remaining reached 0.                                              *)
C6_RemainingAndCompletion ==
    AtBoundary =>
        \A i \in 1..Len(p) :
            /\ 0 <= p[i].remaining
            /\ p[i].remaining <= p[i].burst
            /\ p[i].completion # UNSET <=> p[i].remaining = 0
            /\ p[i].remaining <= last.pb[i].remaining
            /\ last.pb[i].completion # UNSET => p[i].completion = last.pb[i].completion
            /\ (last.pb[i].completion = UNSET /\ p[i].completion # UNSET) =>
                  /\ p[i].completion = t
                  /\ last.pb[i].remaining > 0
                  /\ p[i].remaining = 0

(* An iteration that completed one process while another is unfinished. *)
C6_Witness ==
    /\ pc = "loop"
    /\ \E i, j \in 1..Len(p) :
         /\ last.pb[i].completion = UNSET
         /\ p[i].completion = t
         /\ p[j].remaining > 0
         /\ p[j].remaining < p[j].burst

-----------------------------------------------------------------------------
Seg(pid, start, end) == [pid |-> pid, start |-> start, end |-> end]

RanScenarioA == policy = "RR" /\ quantum = ScenarioA.quantum /\ IsScenario(ScenarioA)

RanScenarioB == policy = "SRTF" /\ IsScenario(ScenarioB)

(* C7: Round Robin, quantum 2, on P1(0,4) P2(1,3) P3(3,2) prints the       *)
(* timeline [0-2]P1 [2-4]P2 [4-6]P1 [6-8]P3 [8-9]P2, the waiting times     *)
(* 2, 5, 3 (total 10, average 3.33) and the total turnaround 19 (average   *)
(* 6.33).                                                                  *)
C7_ScenarioA ==
    (RanScenarioA /\ pc = "exit" /\ status = 0) =>
        /\ segs = << Seg(1, 0, 2), Seg(2, 2, 4), Seg(1, 4, 6), Seg(3, 6, 8), Seg(2, 8, 9) >>
        /\ Waits = <<2, 5, 3>>
        /\ sum_wait = Wide(10)
        /\ sum_tat = Wide(19)
        /\ avg_centi(sum_wait, n) = 333
        /\ avg_centi(sum_tat, n) = 633

C7_Witness == RanScenarioA /\ pc = "exit" /\ status = 0 /\ Len(segs) = 5

(* C8 as stated: SRTF on P1(0,8) P2(1,4) P3(2,9) P4(3,5) gives the waiting *)
(* times 9, 1, 15, 0.                                                      *)
C8_AsStated ==
    (RanScenarioB /\ pc = "exit" /\ status = 0) => Waits = <<9, 1, 15, 0>>

(* C8: SRTF on P1(0,8) P2(1,4) P3(2,9) P4(3,5) gives the waiting times     *)
(* P1=9, P2=0, P3=15, P4=2.                                                *)
C8_ScenarioBWaits ==
    (RanScenarioB /\ pc = "exit" /\ status = 0) => Waits = <<9, 0, 15, 2>>

C8_Witness ==
    /\ RanScenarioB /\ pc = "exit" /\ status = 0
    /\ [k \in 1..Len(p) |-> p[k].completion] = <<17, 5, 26, 10>>

(* C9: SRTF on P1(0,8) P2(1,4) P3(2,9) P4(3,5) has waiting times that sum  *)
(* to 26 over 4 processes: an average of 6.50.                             *)
C9_ScenarioBAverage ==
    (RanScenarioB /\ pc = "exit" /\ status = 0) =>
        /\ sum_wait = Wide(26)
        /\ n = 4
        /\ avg_centi(sum_wait, n) = 650

C9_Witness == RanScenarioB /\ pc = "exit" /\ status = 0 /\ sum_tat = Wide(52)

-----------------------------------------------------------------------------
(* What append(owner, start, end) must have made of the list sb. *)
AppendContract(sb, sa, a) ==
    IF a.start = a.end
    THEN sa = sb
    ELSE IF Len(sb) > 0 /\ sb[Len(sb)].pid = a.pid /\ sb[Len(sb)].end = a.start
    THEN /\ Len(sa) = Len(sb)
         /\ \A k \in 1..(Len(sb) - 1) : sa[k] = sb[k]
         /\ sa[Len(sb)] = Seg(a.pid, sb[Len(sb)].start, a.end)
    ELSE sa = Append(sb, Seg(a.pid, a.start, a.end))

NoAdjacentSameOwner(ss) == \A k \in 2..Len(ss) : ss[k].pid # ss[k - 1].pid

(* C10: append(owner, start, end) changes nothing when start = end;        *)
(* otherwise it extends the last segment when that one has the same owner  *)
(* and ends at start, and appends a new segment in every other case.  In   *)
(* the lists built by the two drivers no two consecutive segments have the *)
(* same owner.                                                             *)
C10_RecorderContract ==
    /\ last.app.called => AppendContract(last.sb, segs, last.app)
    /\ policy \in {"RR", "SRTF"} => NoAdjacentSameOwner(segs)

(* A driver's append that extended the last segment in place. *)
C10_Witness ==
    /\ policy \in {"RR", "SRTF"}
    /\ last.app.called
    /\ Len(last.sb) > 0
    /\ Len(segs) = Len(last.sb)
    /\ segs # last.sb

(* An append with start = end on a non-empty list. *)
C10_WitnessNoOp ==
    /\ last.app.called
    /\ last.app.start = last.app.end
    /\ Len(segs) > 0

(* An append of the last owner that does not touch the last segment. *)
C10_WitnessGap ==
    /\ last.app.called
    /\ Len(segs) = Len(last.sb) + 1
    /\ Len(last.sb) > 0
    /\ last.sb[Len(last.sb)].pid = last.app.pid

-----------------------------------------------------------------------------
(* C11: after a run on valid input, under both policies, every process has *)
(* turnaround = completion - arrival, turnaround = waiting + burst,        *)
(* waiting >= 0 and turnaround >= burst.                                   *)
C11_MetricsRelations ==
    (pc = "exit" /\ status = 0) =>
        \A i \in 1..Len(p) :
            /\ p[i].turnaround >= p[i].burst
            /\ p[i].waiting >= 0
            /\ p[i].turnaround = p[i].completion - p[i].arrival
            /\ p[i].turnaround = p[i].waiting + p[i].burst

-----------------------------------------------------------------------------
(* The input as stored is a valid one: n > 0, quantum > 0 for Round Robin, *)
(* and n lines with arrival >= 0 and burst > 0.                            *)
ValidInput ==
    /\ n > 0
    /\ policy = "RR" => quantum > 0
    /\ Len(p) = n
    /\ \A k \in 1..Len(p) : p[k].arrival >= 0 /\ p[k].burst > 0

(* Nothing of a simulation exists: clock, segments, queue, dispatches,     *)
(* metrics.                                                                *)
NoSimulation ==
    /\ t = 0
    /\ segs = <<>>
    /\ q = NoQueue
    /\ last = NoEntry
    /\ prevRun = NoIdx
    /\ sum_wait = Wide(0)
    /\ sum_tat = Wide(0)
    /\ \A k \in 1..Len(p) : p[k].waiting = 0 /\ p[k].turnaround = 0

(* C12: an input with n <= 0, with quantum <= 0 under Round Robin, or with *)
(* a line whose arrival is negative or whose burst is not positive never   *)
(* reaches the simulation and ends with a non-zero exit status, the clock  *)
(* never advanced, no segment recorded, no process dispatched, no metrics  *)
(* computed; a run on valid input ends with exit status 0.                 *)
C12_InvalidInputRejected ==
    /\ pc \in {"setup", "loop", "metrics"} => ValidInput
    /\ pc = "exit" => IF ValidInput THEN status = 0
                      ELSE status = 1 /\ NoSimulation

(* A rejection at the second line, after a valid first line. *)
C12_Witness ==
    /\ pc = "exit"
    /\ status = 1
    /\ ri = 2
    /\ p[1].remaining > 0
    /\ invalid_line(Line(2))

(* A rejection of the quantum. *)
C12_WitnessQuantum ==
    /\ pc = "exit"
    /\ status = 1
    /\ policy = "RR"
    /\ n > 0
    /\ p = <<>>

-----------------------------------------------------------------------------
(* C13: a single process with arrival 0 and any burst > 0 gives, under     *)
(* both policies and for every quantum > 0, exactly one segment, owned by  *)
(* that process and spanning [0, burst), waiting 0 and turnaround = burst. *)
C13_SingleProcess ==
    (pc = "exit" /\ status = 0 /\ n = 1 /\ p[1].arrival = 0) =>
        /\ segs = << Seg(p[1].pid, 0, p[1].burst) >>
        /\ p[1].waiting = 0
        /\ p[1].turnaround = p[1].burst

-----------------------------------------------------------------------------
RECURSIVE IdleCountFrom(_, _)
IdleCountFrom(ss, k) ==
    IF k > Len(ss) THEN 0
    ELSE (IF ss[k].pid = IDLE THEN 1 ELSE 0) + IdleCountFrom(ss, k + 1)

(* C14: when the smallest arrival m is positive, the first segment is IDLE *)
(* over [0, m) and the first dispatch happens at clock m; when all the     *)
(* processes have the same positive arrival, that segment is the only IDLE *)
(* segment of the timeline.                                                *)
C14_LeadingIdle ==
    LET m == earliest_arrival(p)
    IN  /\ (LoopEnded /\ m > 0) =>
              /\ Len(segs) > 0
              /\ segs[1] = Seg(IDLE, 0, m)
              /\ (\A k \in 1..Len(p) : p[k].arrival = m) => IdleCountFrom(segs, 1) = 1
        /\ (AtBoundary /\ last.kind = "run" /\ last.prev = NoIdx /\ m > 0) =>
              last.t0 = m

-----------------------------------------------------------------------------
(* The processes whose arrival lies in (s, e]. *)
ArrivedWithin(pp, s, e) == {j \in 1..Len(pp) : s < pp[j].arrival /\ pp[j].arrival <= e}

(* C16: Round Robin - when a process ran a slice [s, e) without finishing, *)
(* every process with s < arrival <= e (arrival exactly at e included)     *)
(* stands in the ready queue ahead of the re-inserted process, which is    *)
(* the last of the queue, and is dispatched before that process is         *)
(* dispatched again.                                                       *)
C16_ArrivalsAheadOfRequeue ==
    (policy = "RR" /\ pc = "loop" /\ last.kind = "run") =>
        LET i   == last.idx
            now == QSeq(q)
            new == ArrivedWithin(p, last.t0, last.t1)
        IN  /\ p[i].remaining > 0 =>
                 /\ Len(now) > 0
                 /\ now[Len(now)] = i
                 /\ \A j \in new : \E k \in 1..(Len(now) - 1) : now[k] = j
                 /\ new \subseteq owed[i]
            /\ last.owedb = {}

(* A slice left unfinished with one process arriving exactly at its end. *)
C16_Witness ==
    /\ policy = "RR"
    /\ pc = "loop"
    /\ last.kind = "run"
    /\ p[last.idx].remaining > 0
    /\ \E j \in 1..Len(p) : p[j].arrival = last.t1 /\ last.t0 < last.t1
                            /\ j # last.idx

(* A slice left unfinished with one process arriving strictly inside it. *)
C16_WitnessInside ==
    /\ policy = "RR"
    /\ pc = "loop"
    /\ last.kind = "run"
    /\ p[last.idx].remaining > 0
    /\ \E j \in 1..Len(p) : last.t0 < p[j].arrival /\ p[j].arrival < last.t1

-----------------------------------------------------------------------------
(* Record j comes before record k as a new arrival: earlier arrival, or    *)
(* the same arrival and earlier in the input.                              *)
ArrivesBefore(pp, j, k) ==
    \/ pp[j].arrival < pp[k].arrival
    \/ (pp[j].arrival = pp[k].arrival /\ j < k)

(* C17: Round Robin - the processes enter the ready queue for the first    *)
(* time in non-decreasing arrival order, equal arrivals in input order, in *)
(* the first enqueue, in the enqueues of a slice and in the enqueue after  *)
(* an idle jump: each step appends to the queue exactly the processes      *)
(* whose enqueued flag it raises, each once, in that order, none arriving  *)
(* before a process enqueued earlier; a raised flag is never lowered and   *)
(* every flag is raised when the loop ends.                                *)
C17_FirstEnqueueOrder ==
    /\ (policy = "RR" /\ pc = "loop" /\ last.kind \in {"setup", "idle", "run"}) =>
          LET pb   == last.pb
              qe   == last.qe
              base == IF last.kind = "run" THEN Tail(last.qb) ELSE last.qb
              old  == {j \in 1..Len(pb) : pb[j].enqueued = 1}
              new  == {j \in 1..Len(pb) : pb[j].enqueued = 0 /\ p[j].enqueued = 1}
              news == SubSeq(qe, Len(base) + 1, Len(qe))
          IN  /\ \A j \in old : p[j].enqueued = 1
              /\ Len(qe) >= Len(base)
              /\ SubSeq(qe, 1, Len(base)) = base
              /\ Range(news) = new
              /\ Len(news) = Cardinality(new)
              /\ \A a, b \in 1..Len(news) : a < b => ArrivesBefore(p, news[a], news[b])
              /\ \A o \in old, j \in new : p[o].arrival <= p[j].arrival
    /\ (policy = "RR" /\ pc \in {"loop", "metrics", "exit"} /\ status # 1) =>
          \A j \in 1..Len(p) : p[j].enqueued \in {0, 1}
    /\ (policy = "RR" /\ LoopEnded) => \A j \in 1..Len(p) : p[j].enqueued = 1

(* One slice that enqueued two processes against their input order. *)
C17_Witness ==
    /\ policy = "RR"
    /\ pc = "loop"
    /\ last.kind = "run"
    /\ Len(last.qe) = Len(last.qb) + 1
    /\ last.qe[Len(last.qe) - 1] > last.qe[Len(last.qe)]
    /\ last.pb[last.qe[Len(last.qe)]].enqueued = 0
    /\ last.pb[last.qe[Len(last.qe) - 1]].enqueued = 0

(* A first enqueue of two processes with the same arrival. *)
C17_WitnessTie ==
    /\ policy = "RR"
    /\ pc = "loop"
    /\ last.kind = "setup"
    /\ Len(last.qe) = 2

(* An idle jump that enqueued a process. *)
C17_WitnessIdle ==
    /\ policy = "RR"
    /\ pc = "loop"
    /\ last.kind = "idle"
    /\ Len(last.qe) = 1

-----------------------------------------------------------------------------
(* C18: Round Robin - a dispatch of process i at clock t runs it for       *)
(* exactly min(remaining[i], quantum) units: the clock advances by that    *)
(* amount, remaining[i] decreases by it, the remaining time of every other *)
(* process is unchanged; no process runs more than quantum units in a row  *)
(* while another process waits in the ready queue.                         *)
C18_SliceLength ==
    (policy = "RR" /\ pc = "loop" /\ last.kind = "run") =>
        LET i   == last.idx
            pb  == last.pb
            len == IF pb[i].remaining < quantum THEN pb[i].remaining ELSE quantum
        IN  /\ len > 0
            /\ last.t1 = last.t0 + len
            /\ t = last.t1
            /\ p[i].remaining = pb[i].remaining - len
            /\ \A j \in 1..Len(p) : j # i => p[j].remaining = pb[j].remaining
            /\ last.app = App(pb[i].pid, last.t0, last.t0 + len)
            /\ ~(last.prev = i /\ Len(last.qb) > 1)
            /\ (p[i].remaining > 0 /\ Len(last.qe) > 0) => QSeq(q)[1] # i

(* A dispatch cut at the quantum while another process waited. *)
C18_Witness ==
    /\ policy = "RR"
    /\ pc = "loop"
    /\ last.kind = "run"
    /\ last.pb[last.idx].remaining > quantum
    /\ Len(last.qb) > 1

(* A dispatch that ended before the quantum because the process finished. *)
C18_WitnessShort ==
    /\ policy = "RR"
    /\ pc = "loop"
    /\ last.kind = "run"
    /\ last.pb[last.idx].remaining < quantum

-----------------------------------------------------------------------------
(* The smallest arrival among the unfinished processes that arrive after   *)
(* tt, and 0 when there is none.                                           *)
NextArrivalAfter(pp, tt) ==
    LET later == {pp[j].arrival : j \in {k \in 1..Len(pp) :
                                           pp[k].remaining > 0 /\ pp[k].arrival > tt}}
    IN  IF later = {} THEN 0
        ELSE CHOOSE a \in later : \A b \in later : a <= b

(* C19: both policies are work-conserving - during a recorded IDLE span    *)
(* [s, e) no process that has arrived is unfinished, and every idle jump   *)
(* moves the clock strictly forward, to the smallest arrival among the     *)
(* unfinished processes that have not arrived yet.                         *)
C19_WorkConserving ==
    /\ (pc = "loop" /\ last.kind \in {"setup", "idle"} /\ last.app.called) =>
          /\ last.app.pid = IDLE
          /\ last.app.start < last.app.end
          /\ \A j \in 1..Len(last.pb) :
                ~(last.pb[j].arrival < last.app.end /\ last.pb[j].remaining > 0)
    /\ (pc = "loop" /\ last.kind = "idle") =>
          /\ last.t1 > last.t0
          /\ last.t1 = NextArrivalAfter(last.pb, last.t0)
          /\ t = last.t1
          /\ last.app = App(IDLE, last.t0, last.t1)

-----------------------------------------------------------------------------
(* C20: Round Robin - at every boundary of the driver loop the ready queue *)
(* holds exactly the processes with enqueued = 1 and remaining > 0, each   *)
(* once; the index popped for a dispatch always has remaining > 0 (the     *)
(* skip is never taken); and an empty queue with unfinished work means     *)
(* that some unfinished process is not enqueued yet and arrives after the  *)
(* clock.                                                                  *)
C20_ReadyQueueContent ==
    (policy = "RR" /\ pc = "loop") =>
        LET now   == QSeq(q)
            ready == {j \in 1..Len(p) : p[j].enqueued = 1 /\ p[j].remaining > 0}
        IN  /\ Range(now) = ready
            /\ Len(now) = Cardinality(ready)
            /\ last.kind # "skip"
            /\ last.kind = "run" => last.pb[last.idx].remaining > 0
            /\ (q_empty(q) /\ ~all_done(p)) =>
                  \E j \in 1..Len(p) :
                      p[j].remaining > 0 /\ p[j].enqueued = 0 /\ p[j].arrival > t

(* A boundary with a finished process, a queued process and a dispatch     *)
(* behind it.                                                              *)
C20_Witness ==
    /\ policy = "RR"
    /\ pc = "loop"
    /\ last.kind = "run"
    /\ ~q_empty(q)
    /\ \E j \in 1..Len(p) : p[j].enqueued = 1 /\ p[j].remaining = 0

(* A boundary with an empty queue and a process still to arrive. *)
C20_WitnessEmpty ==
    /\ policy = "RR"
    /\ pc = "loop"
    /\ last.kind = "run"
    /\ q_empty(q)
    /\ ~all_done(p)

-----------------------------------------------------------------------------
(* a + b for a, b >= 0, stopping at INT_MAX: a result of INT_MAX stands    *)
(* for "INT_MAX or more".                                                  *)
SatAdd(a, b) == IF a >= INT_MAX - b THEN INT_MAX ELSE a + b

(* The busy and idle time of a process list, whatever the policy: the      *)
(* processor is busy whenever arrived work is left.  Taken in arrival      *)
(* order, a process that arrives after the work before it has ended opens  *)
(* an idle interval; end is the makespan.                                  *)
RECURSIVE BusyIdleFrom(_, _, _, _)
BusyIdleFrom(pp, left, end, idles) ==
    IF left = {} THEN [end |-> end, idles |-> idles]
    ELSE LET j == CHOOSE j \in left : \A k \in left : k = j \/ ArrivesBefore(pp, j, k)
             a == pp[j].arrival
         IN  BusyIdleFrom(pp, left \ {j},
                          SatAdd(IF a > end THEN a ELSE end, pp[j].burst),
                          IF a > end THEN idles \cup {<<end, a>>} ELSE idles)

BusyIdle(pp) == BusyIdleFrom(pp, 1..Len(pp), 0, {})

(* The IDLE intervals of a timeline. *)
IdleIntervals(ss) == {<<ss[k].start, ss[k].end>> : k \in {i \in 1..Len(ss) : ss[i].pid = IDLE}}

(* C21: on the same valid process list Round Robin, for every quantum,     *)
(* and SRTF produce the same IDLE intervals and the same makespan: under   *)
(* either policy the IDLE intervals of the timeline and the largest        *)
(* completion time are the ones the process list alone determines.         *)
C21_SameIdleAndMakespan ==
    (policy \in {"RR", "SRTF"} /\ LoopEnded) =>
        /\ IdleIntervals(segs) = BusyIdle(p).idles
        /\ MaxCompletion(p) = BusyIdle(p).end

-----------------------------------------------------------------------------
RECURSIVE MaxBurstFrom(_, _, _)
MaxBurstFrom(pp, i, m) ==
    IF i > Len(pp) THEN m
    ELSE MaxBurstFrom(pp, i + 1, IF pp[i].burst > m THEN pp[i].burst ELSE m)

(* The quantum is at least the largest burst of the input. *)
QuantumCoversBursts == quantum >= MaxBurstFrom(p, 1, 0)

(* C22: Round Robin with quantum >= the largest burst is first come first  *)
(* served - every dispatch is the first dispatch of its process and runs   *)
(* it to completion, so that no process is requeued and each is dispatched *)
(* exactly once; the processes are dispatched in non-decreasing arrival    *)
(* order, equal arrivals in input order.                                   *)
C22_LargeQuantumIsFcfs ==
    (policy = "RR" /\ AtBoundary /\ QuantumCoversBursts) =>
        /\ last.kind = "run" =>
              /\ last.pb[last.idx].remaining = last.pb[last.idx].burst
              /\ last.pb[last.idx].completion = UNSET
              /\ p[last.idx].remaining = 0
              /\ p[last.idx].completion = last.t1
              /\ last.idx \notin Range(QSeq(q))
              /\ last.prev # NoIdx => ArrivesBefore(p, last.prev, last.idx)
              /\ \A j \in 1..Len(p) :
                    (j # last.idx /\ ArrivesBefore(p, j, last.idx)) => p[j].remaining = 0
        /\ LoopEnded => \A j \in 1..Len(p) : p[j].remaining = 0 /\ p[j].completion # UNSET

(* A second dispatch that follows the arrival order against the input      *)
(* order, with a burst larger than one unit.                               *)
C22_Witness ==
    /\ policy = "RR"
    /\ pc = "loop"
    /\ QuantumCoversBursts
    /\ last.kind = "run"
    /\ last.prev > last.idx
    /\ p[last.idx].burst > 1

-----------------------------------------------------------------------------
(* C23: the circular queue of rr.c, once initialised - 0 <= size <= n <=   *)
(* cap, 0 <= head < cap, 0 <= tail < cap, tail = (head + size) mod cap;    *)
(* q_pop is called on a non-empty queue only; the capacity stays at        *)
(* max(n, 4), that is, q_push never takes its doubling branch; and the     *)
(* queue is first in first out: the popped value is the oldest one and     *)
(* the values already queued keep their order in front of the pushed ones. *)
C23_CircularQueue ==
    (policy = "RR" /\ AtBoundary) =>
        /\ 0 <= q.size /\ q.size <= n /\ n <= q.cap
        /\ 0 <= q.head /\ q.head < q.cap
        /\ 0 <= q.tail /\ q.tail < q.cap
        /\ q.tail = (q.head + q.size) % q.cap
        /\ q.cap = (IF n > 4 THEN n ELSE 4)
        /\ DOMAIN q.data = 0..(q.cap - 1)
        /\ last.kind \in {"run", "skip"} =>
              /\ Len(last.qb) > 0
              /\ last.idx = last.qb[1]
        /\ last.kind \in {"setup", "idle", "run", "skip"} =>
              LET base == IF last.kind \in {"run", "skip"} THEN Tail(last.qb)
                          ELSE last.qb
                  now  == QSeq(q)
              IN  /\ Len(now) >= Len(base)
                  /\ SubSeq(now, 1, Len(base)) = base

(* A queue filled to its capacity by a requeue, head and tail wrapped. *)
C23_Witness ==
    /\ policy = "RR"
    /\ pc = "loop"
    /\ last.kind = "run"
    /\ q.size = q.cap
    /\ q.head > 0
    /\ q.tail = q.head

(* A push that wrapped the tail around while the queue was not full. *)
C23_WitnessWrap ==
    /\ policy = "RR"
    /\ pc = "loop"
    /\ q.size > 0
    /\ q.tail < q.head

=============================================================================
